---- MODULE Spec2Model ----
(***************************************************************************)
(* A model of scripts/watch_page.py: one invocation of main() after        *)
(* another (a non-overlapping external scheduler), each reading its        *)
(* configuration from the environment, loading state/page_state.json,      *)
(* fetching the page with retries, extracting the signal, classifying the  *)
(* run against the stored fingerprint, notifying and saving the state.     *)
(*                                                                         *)
(* Python's None is modelled by the string None for the string-valued      *)
(* fields and by NoTime for the timestamp; an unset environment variable   *)
(* and one set to the empty string are both "" where the code does not     *)
(* tell them apart (`not url`, `... or None`, the "" default).             *)
(***************************************************************************)
EXTENDS Integers, Sequences, FiniteSets, TLC

\* ------------------------------------------------------------------ bounds
\* Number of invocations of main() in a behaviour.
MaxRuns == 3
\* Largest `retries` argument that SpecFetch gives to fetch().
MaxRetries == 6

\* ------------------------------------------------------- program constants
DEFAULT_RETRIES == 3
BACKOFF_BASE == 2
EXIT_OK == 0
EXIT_NETWORK == 0
EXIT_FATAL == 1
EXIT_CONFIG == 2
EXIT_INTERRUPT == 130
NoTime == 0

None == "None"
Unset == "<unset>"

VARIABLES
    file,          \* the content of STATE_PATH on disk
    now,           \* the clock that now_utc_iso() reads; one tick per run
    pc,            \* where the current invocation of main() stands
    env,           \* WATCH_URL, WATCH_SELECTOR, WATCH_KEYWORDS, FORCE_NOTIFY
    state,         \* main's local `state`
    retries,       \* fetch's parameter
    attempt,       \* fetch's loop variable
    slept,         \* the arguments of time.sleep in fetch, in order
    html,          \* the page that fetch returned
    signal_text,   \* extract_signal's first result
    summary,       \* extract_signal's second result
    metadata,      \* extract_signal's third result
    current_hash,  \* sha256(signal_text)
    outcome,       \* "Baseline" | "Unchanged" | "Changed" once classified
    exit_code,     \* the process's exit status
    error,         \* the exception being handled / that ended the run
    email_sent,    \* what send_email did in this run
    whatsapp_sent, \* what send_whatsapp did in this run
    body,          \* the notification composed by send_notifications
    fileAtStart,   \* history: the file when the run began
    calls,         \* history: calls made by this run
    seen,          \* history: signal of the latest run that extracted one
    repeat,        \* history: this run's signal equals the one seen before
    hash_set       \* history: a non-null last_hash has been persisted

vars == <<file, now, pc, env, state, retries, attempt, slept, html,
          signal_text, summary, metadata, current_hash, outcome, exit_code,
          error, email_sent, whatsapp_sent, body, fileAtStart, calls, seen,
          repeat, hash_set>>

\* ------------------------------------------------------------ environment
URL == "https://example.org/item"
WatchUrls == {"", URL}
\* "a[" is not a CSS selector: soup.select_one raises on it.
WatchSelectors == {"", "#price", "a["}
\* WATCH_KEYWORDS after split(","): "", " ," and "Sale, new ".
WatchKeywords == {<<"">>, <<" ", "">>, <<"Sale", " new ">>}
ForceNotifyValues == {"", "True", "1"}
SmtpPorts == {Unset, "465", ""}
\* Which of SMTP_HOST, SMTP_USER, SMTP_PASS, EMAIL_TO, EMAIL_FROM are set.
EmailEnvs == {
    {"SMTP_HOST", "SMTP_USER", "SMTP_PASS", "EMAIL_TO", "EMAIL_FROM"},
    {"SMTP_HOST", "SMTP_USER", "SMTP_PASS", "EMAIL_TO"},
    {"SMTP_USER", "SMTP_PASS", "EMAIL_TO", "EMAIL_FROM"},
    {} }
\* Which of the Twilio variables are set.
WhatsappEnvs == {
    {"TWILIO_ACCOUNT_SID", "TWILIO_AUTH_TOKEN", "WHATSAPP_FROM", "WHATSAPP_TO"},
    {"TWILIO_ACCOUNT_SID", "WHATSAPP_FROM", "WHATSAPP_TO"},
    {} }

\* str.strip and str.lower on the strings of the model.
Strip(s) == CASE s = " " -> "" [] s = " new " -> "new" [] OTHER -> s
Lower(s) == CASE s = "Sale" -> "sale" [] s = "True" -> "true" [] OTHER -> s

\* ------------------------------------------------------------------ pages
\* A fetched document: its visible text, the text of its first element
\* matching "#price" ("" when there is none), and which lower-cased
\* keywords occur in the lower-cased text.
EmptyPage == [text |-> "", el |-> "", has |-> {}]
Pages == {
    [text |-> "Huge sale today 9", el |-> "9", has |-> {"sale"}],
    [text |-> "New stock 12", el |-> "12", has |-> {"new"}],
    [text |-> "Sold out", el |-> "", has |-> {}] }
\* The failures of requests.get / raise_for_status, all RequestException.
FetchFailures == {"ConnectionError", "Timeout", "HTTPError"}

\* ------------------------------------------------------------- state file
DefaultState ==
    [is_dict |-> TRUE, last_hash |-> None, last_match |-> None,
     last_checked |-> NoTime]
NotADict ==
    [is_dict |-> FALSE, last_hash |-> None, last_match |-> None,
     last_checked |-> NoTime]
FileOf(kind) ==
    [kind |-> kind, last_hash |-> None, last_match |-> None,
     last_checked |-> NoTime]
\* absent: no file; invalid_json: text json.load rejects (an empty or cut
\* file too); unreadable: open raises IOError; non_object: valid JSON that
\* is a list, a number, a string or null; bad_utf8: bytes that are not UTF-8.
InitialFiles ==
    {FileOf(k) : k \in {"absent", "invalid_json", "unreadable",
                         "non_object", "bad_utf8"}}

load_state_raises(f) == f.kind = "bad_utf8"

load_state(f) ==
    IF f.kind = "absent" THEN DefaultState
    ELSE IF f.kind = "object"
         THEN [is_dict |-> TRUE, last_hash |-> f.last_hash,
               last_match |-> f.last_match, last_checked |-> f.last_checked]
    ELSE IF f.kind = "non_object" THEN NotADict
    ELSE DefaultState

\* open(STATE_PATH, "w") truncates the file before anything is written.
truncated(f) == FileOf("invalid_json")

json_dump(st) ==
    [kind |-> "object", last_hash |-> st.last_hash,
     last_match |-> st.last_match, last_checked |-> st.last_checked]

\* hashlib.sha256(s.encode("utf-8")).hexdigest(), its first eight digits.
sha256(s) ==
    CASE s = "" -> "e3b0c442"
      [] s = "9" -> "19581e27"
      [] s = "12" -> "6b51d431"
      [] s = "Huge sale today 9" -> "6ebb373c"
      [] s = "New stock 12" -> "dfd3c50b"
      [] s = "Sold out" -> "1a27eedb"

\* ---------------------------------------------------------- configuration
\* selector = os.getenv("WATCH_SELECTOR") or None; None is "".
selector_of(raw) == raw

\* [k.strip() for k in keywords_raw.split(",") if k.strip()] or None;
\* None is <<>> (both are falsy and extract_signal counts both as 0).
\* keywords_of without its `if k.strip()` filter
keywords_of_unfiltered(raw) == [i \in 1..Len(raw) |-> Strip(raw[i])]
keywords_of(raw) ==
    LET stripped == [i \in 1..Len(raw) |-> Strip(raw[i])]
        NonEmpty(k) == k # ""
    IN  SelectSeq(stripped, NonEmpty)

\* The two sys.exit(2) tests of main.
config_error(e) ==
    \/ e.WATCH_URL = ""
    \/ selector_of(e.WATCH_SELECTOR) = "" /\ keywords_of(e.WATCH_KEYWORDS) = <<>>

force_notify(e) == Lower(e.FORCE_NOTIFY) = "true"

\* ------------------------------------------------------------- extraction
\* soup.select_one(selector) raises on a string that is no CSS selector.
extract_signal_raises(page, selector) == selector = "a["

extract_signal(page, selector, keywords) ==
    IF selector # ""
    THEN LET text == page.el
         IN  [signal |-> text,
              summary |-> IF text # ""
                          THEN "Selector '" \o selector \o "' matched: '"
                               \o text \o "...'"
                          ELSE "Selector '" \o selector \o "' not found",
              \* metadata has no "matched_keywords" here; the only reader
              \* takes metadata.get("matched_keywords", []).
              metadata |-> [method |-> "selector", matched_keywords |-> <<>>]]
    ELSE LET Matches(kw) == Lower(kw) \in page.has
             matches == SelectSeq(keywords, Matches)
         IN  [signal |-> page.text,
              summary |-> "Keywords matched: "
                          \o (IF matches # <<>> THEN ToString(matches)
                                                ELSE "none")
                          \o " | Page length: " \o ToString(Len(page.text))
                          \o " chars | Keywords monitored: "
                          \o ToString(Len(keywords)),
              metadata |-> [method |-> "keywords",
                            matched_keywords |-> matches]]

\* --------------------------------------------------------- classification
\* state.get("last_hash") is None
first_run(st) == st.last_hash = None

\* changed with the comparison inverted
changed_when_equal(h, st) == h = st.last_hash
\* changed = (current_hash != state["last_hash"])
changed(h, st) == h # st.last_hash

\* ---------------------------------------------------------- notification
\* int(os.getenv("SMTP_PORT", "587")) raises ValueError on a non-number.
smtp_port_raises(port) == ~((IF port = Unset THEN "587" ELSE port) \in {"587", "465"})

\* all([host, user, pwd, to, from_addr]), from_addr = EMAIL_FROM or user
email_configured(set) ==
    /\ {"SMTP_HOST", "SMTP_USER", "SMTP_PASS", "EMAIL_TO"} \subseteq set
    /\ ("EMAIL_FROM" \in set \/ "SMTP_USER" \in set)

\* all([sid, token, w_from, w_to])
whatsapp_configured(set) ==
    {"TWILIO_ACCOUNT_SID", "TWILIO_AUTH_TOKEN", "WHATSAPP_FROM",
     "WHATSAPP_TO"} \subseteq set

NoBody == [url |-> "", time |-> NoTime, matched |-> "", method |-> ""]
\* The body that send_notifications composes.
notification_body(url, st_checked, md) ==
    [url |-> url, time |-> st_checked,
     matched |-> IF md.matched_keywords # <<>>
                 THEN ToString(md.matched_keywords) ELSE "N/A",
     method |-> md.method]

\* ------------------------------------------------------------------ fetch
\* `if attempt == retries - 1: raise`
\* gives_up off by one: the last attempt is taken for one more to come
gives_up_one_late(a, n) == a = n
gives_up(a, n) == a = n - 1

\* wait_time = 2 ** attempt
wait_time(a) == BACKOFF_BASE ^ a

\* ---------------------------------------------------------------- control
NoSignal == "<no signal>"
NoCalls ==
    [load |-> 0, get |-> 0, failed |-> 0, extract |-> 0, notify |-> 0,
     save |-> 0]
NoMetadata == [method |-> "", matched_keywords |-> <<>>]
\* test_metadata of the forced test
TestMetadata == [method |-> "test", matched_keywords |-> <<"TEST">>]

extraction == <<signal_text, summary, metadata, current_hash>>
fetching == <<retries, attempt, slept, html>>
channels == <<email_sent, whatsapp_sent>>
history == <<fileAtStart, seen, repeat, hash_set>>

\* The process ends: a return from main, a sys.exit, or one of the except
\* clauses of main (RequestException: 0, KeyboardInterrupt: 130, any other
\* Exception: 1).
Exit(code, exc) ==
    /\ pc' = "exited"
    /\ exit_code' = code
    /\ error' = exc

Goto(label) ==
    /\ pc' = label
    /\ UNCHANGED <<exit_code, error>>

Init ==
    /\ file \in InitialFiles
    /\ now = 0
    /\ pc = "exited"
    /\ env = [WATCH_URL |-> "", WATCH_SELECTOR |-> "",
              WATCH_KEYWORDS |-> <<"">>, FORCE_NOTIFY |-> ""]
    /\ state = DefaultState
    /\ retries = DEFAULT_RETRIES
    /\ attempt = 0
    /\ slept = <<>>
    /\ html = EmptyPage
    /\ signal_text = ""
    /\ summary = ""
    /\ metadata = NoMetadata
    /\ current_hash = None
    /\ outcome = ""
    /\ exit_code = EXIT_OK
    /\ error = ""
    /\ email_sent = "-"
    /\ whatsapp_sent = "-"
    /\ body = NoBody
    /\ fileAtStart = file
    /\ calls = NoCalls
    /\ seen = NoSignal
    /\ repeat = FALSE
    /\ hash_set = FALSE

\* main, lines 247-273: a new process reads and validates its configuration.
main_config(u, s, k, f) ==
    /\ pc = "exited"
    /\ now < MaxRuns
    /\ now' = now + 1
    /\ env' = [WATCH_URL |-> u, WATCH_SELECTOR |-> s, WATCH_KEYWORDS |-> k,
               FORCE_NOTIFY |-> f]
    /\ state' = DefaultState
    /\ retries' = DEFAULT_RETRIES
    /\ attempt' = 0
    /\ slept' = <<>>
    /\ html' = EmptyPage
    /\ signal_text' = ""
    /\ summary' = ""
    /\ metadata' = NoMetadata
    /\ current_hash' = None
    /\ outcome' = ""
    /\ email_sent' = "-"
    /\ whatsapp_sent' = "-"
    /\ body' = NoBody
    /\ fileAtStart' = file
    /\ calls' = NoCalls
    /\ repeat' = FALSE
    /\ IF config_error(env')
       THEN Exit(EXIT_CONFIG, "SystemExit")
       ELSE /\ pc' = IF force_notify(env') THEN "force_notify"
                                           ELSE "load_state"
            /\ exit_code' = EXIT_OK
            /\ error' = ""
    /\ UNCHANGED <<file, seen, hash_set>>

\* main, lines 276-280: the forced test composes its notification.
test_notification ==
    /\ pc = "force_notify"
    /\ body' = notification_body(env.WATCH_URL, now, TestMetadata)
    /\ calls' = [calls EXCEPT !.notify = @ + 1]
    /\ Goto("send_email")
    /\ UNCHANGED <<file, now, env, state, fetching, extraction, outcome,
                   channels, history>>

\* main, line 285
main_load_state ==
    /\ pc = "load_state"
    /\ calls' = [calls EXCEPT !.load = @ + 1]
    /\ IF load_state_raises(file)
       THEN /\ Exit(EXIT_FATAL, "UnicodeDecodeError")
            /\ UNCHANGED state
       ELSE /\ state' = load_state(file)
            /\ Goto("fetch")
    /\ UNCHANGED <<file, now, env, fetching, extraction, outcome, channels,
                   body, history>>

\* fetch: one turn of `for attempt in range(retries)`, or line 82 when the
\* range is exhausted. In main the RequestException that fetch raises
\* reaches `except requests.exceptions.RequestException: sys.exit(0)`.
fetch_attempt(ok, page, failure) ==
    /\ pc = "fetch"
    /\ IF attempt >= retries
       THEN /\ html' = EmptyPage
            /\ Goto("extract_signal")
            /\ UNCHANGED <<attempt, slept, calls>>
       ELSE IF ok
       THEN /\ html' = page
            /\ calls' = [calls EXCEPT !.get = @ + 1]
            /\ pc' = "extract_signal"
            /\ error' = ""
            /\ UNCHANGED <<attempt, slept, exit_code>>
       ELSE /\ calls' = [calls EXCEPT !.get = @ + 1, !.failed = @ + 1]
            /\ IF gives_up(attempt, retries)
               THEN /\ Exit(EXIT_NETWORK, failure)
                    /\ UNCHANGED <<attempt, slept, html>>
               ELSE /\ slept' = Append(slept, wait_time(attempt))
                    /\ attempt' = attempt + 1
                    /\ error' = failure
                    /\ UNCHANGED <<pc, exit_code, html>>
    /\ UNCHANGED <<file, now, env, state, retries, extraction, outcome,
                   channels, body, history>>

\* main, lines 291-292
main_extract_signal ==
    /\ pc = "extract_signal"
    /\ calls' = [calls EXCEPT !.extract = @ + 1]
    /\ IF extract_signal_raises(html, selector_of(env.WATCH_SELECTOR))
       THEN /\ Exit(EXIT_FATAL, "SelectorSyntaxError")
            /\ UNCHANGED <<extraction, seen, repeat>>
       ELSE LET r == extract_signal(html, selector_of(env.WATCH_SELECTOR),
                                    keywords_of(env.WATCH_KEYWORDS))
            IN  /\ signal_text' = r.signal
                /\ summary' = r.summary
                /\ metadata' = r.metadata
                /\ current_hash' = sha256(r.signal)
                /\ seen' = r.signal
                /\ repeat' = (seen = r.signal)
                /\ Goto("classify")
    /\ UNCHANGED <<file, now, env, state, fetching, outcome, channels, body,
                   fileAtStart, hash_set>>

\* main, lines 295-322 up to the calls of send_notifications and save_state
classify ==
    /\ pc = "classify"
    /\ IF ~state.is_dict
       THEN \* state["last_checked"] = ... on a list, a number, a string, None
            /\ Exit(EXIT_FATAL, "TypeError")
            /\ UNCHANGED <<state, outcome, body, calls>>
       ELSE LET st == [state EXCEPT !.last_checked = now]
            IN  IF first_run(st)
                THEN /\ state' = [st EXCEPT !.last_hash = current_hash,
                                            !.last_match = summary]
                     /\ outcome' = "Baseline"
                     /\ Goto("save_state")
                     /\ UNCHANGED <<body, calls>>
                ELSE IF changed(current_hash, st)
                THEN /\ state' = st
                     /\ outcome' = "Changed"
                     /\ body' = notification_body(env.WATCH_URL,
                                                  st.last_checked, metadata)
                     /\ calls' = [calls EXCEPT !.notify = @ + 1]
                     /\ Goto("send_email")
                ELSE /\ state' = [st EXCEPT !.last_match = summary]
                     /\ outcome' = "Unchanged"
                     /\ Goto("save_state")
                     /\ UNCHANGED <<body, calls>>
    /\ UNCHANGED <<file, now, env, fetching, extraction, channels, history>>

\* send_email, called at line 238
send_email(port, set, delivered) ==
    /\ pc = "send_email"
    /\ IF smtp_port_raises(port)
       THEN \* line 148, outside the try: ValueError reaches main
            /\ Exit(EXIT_FATAL, "ValueError")
            /\ UNCHANGED email_sent
       ELSE /\ email_sent' = IF ~email_configured(set) THEN "not configured"
                             ELSE IF delivered THEN "sent" ELSE "failed"
            /\ Goto("send_whatsapp")
    /\ UNCHANGED <<file, now, env, state, fetching, extraction, outcome,
                   whatsapp_sent, body, calls, history>>

\* send_whatsapp, called at line 239, and the return of send_notifications:
\* to line 281-282 in the forced test, to lines 313-315 in a Changed run.
send_whatsapp(set, delivered) ==
    /\ pc = "send_whatsapp"
    /\ whatsapp_sent' = IF ~whatsapp_configured(set) THEN "not configured"
                        ELSE IF delivered THEN "sent" ELSE "failed"
    /\ IF force_notify(env)
       THEN /\ Exit(EXIT_OK, "")
            /\ UNCHANGED state
       ELSE /\ state' = [state EXCEPT !.last_hash = current_hash,
                                      !.last_match = summary]
            /\ Goto("save_state")
    /\ UNCHANGED <<file, now, env, fetching, extraction, outcome, email_sent,
                   body, calls, history>>

\* save_state, lines 40-41: the file is opened for writing, which empties it.
save_state_open ==
    /\ pc = "save_state"
    /\ file' = truncated(file)
    /\ calls' = [calls EXCEPT !.save = @ + 1]
    /\ Goto("json_dump")
    /\ UNCHANGED <<now, env, state, fetching, extraction, outcome, channels,
                   body, history>>

\* save_state, line 42, and the return of main
save_state_dump ==
    /\ pc = "json_dump"
    /\ file' = json_dump(state)
    /\ hash_set' = (hash_set \/ state.last_hash # None)
    /\ Exit(EXIT_OK, "")
    /\ UNCHANGED <<now, env, state, fetching, extraction, outcome, channels,
                   body, calls, fileAtStart, seen, repeat>>

\* main, lines 330-332: the operator interrupts the process.
keyboard_interrupt ==
    /\ pc # "exited"
    /\ Exit(EXIT_INTERRUPT, "KeyboardInterrupt")
    /\ UNCHANGED <<file, now, env, state, fetching, extraction, outcome,
                   channels, body, calls, history>>

Next ==
    \/ \E u \in WatchUrls, s \in WatchSelectors, k \in WatchKeywords,
          f \in ForceNotifyValues : main_config(u, s, k, f)
    \/ test_notification
    \/ main_load_state
    \/ \E ok \in BOOLEAN, page \in Pages, failure \in FetchFailures :
          fetch_attempt(ok, page, failure)
    \/ main_extract_signal
    \/ classify
    \/ \E port \in SmtpPorts, set \in EmailEnvs, delivered \in BOOLEAN :
          send_email(port, set, delivered)
    \/ \E set \in WhatsappEnvs, delivered \in BOOLEAN :
          send_whatsapp(set, delivered)
    \/ save_state_open
    \/ save_state_dump

\* Runs that the operator does not interrupt.
Spec == Init /\ [][Next]_vars

\* Runs that the operator may interrupt at any point.
SpecInterrupt == Init /\ [][Next \/ keyboard_interrupt]_vars

\* fetch(url, retries) on its own, for every retries up to MaxRetries.
InitFetch ==
    /\ file = FileOf("absent")
    /\ now = 1
    /\ pc = "fetch"
    /\ env = [WATCH_URL |-> URL, WATCH_SELECTOR |-> "#price",
              WATCH_KEYWORDS |-> <<"">>, FORCE_NOTIFY |-> ""]
    /\ state = DefaultState
    /\ retries \in 0..MaxRetries
    /\ attempt = 0
    /\ slept = <<>>
    /\ html = EmptyPage
    /\ signal_text = ""
    /\ summary = ""
    /\ metadata = NoMetadata
    /\ current_hash = None
    /\ outcome = ""
    /\ exit_code = EXIT_OK
    /\ error = ""
    /\ email_sent = "-"
    /\ whatsapp_sent = "-"
    /\ body = NoBody
    /\ fileAtStart = file
    /\ calls = NoCalls
    /\ seen = NoSignal
    /\ repeat = FALSE
    /\ hash_set = FALSE

NextFetch ==
    \E ok \in BOOLEAN, page \in Pages, failure \in FetchFailures :
        fetch_attempt(ok, page, failure)

SpecFetch == InitFetch /\ [][NextFetch]_vars

\* ================================================================= claims
\* The vocabulary of the claims, stated on the environment and the file and
\* not through the operators that model main.
RunEnded == pc = "exited" /\ now >= 1
ForcedFlag == env.FORCE_NOTIFY \in {"True", "true", "TRUE"}
NoUrlOrNothingToWatch ==
    \/ env.WATCH_URL = ""
    \/ /\ env.WATCH_SELECTOR = ""
       /\ \A i \in 1..Len(env.WATCH_KEYWORDS) :
              Strip(env.WATCH_KEYWORDS[i]) = ""
\* The fingerprint F that the file held when the run began, None if absent.
StoredHash == IF fileAtStart.kind = "object" THEN fileAtStart.last_hash ELSE None
\* The run fetched the page and extracted a signal from it.
Extracted == calls.extract = 1 /\ error # "SelectorSyntaxError"
Classified == Extracted /\ pc # "classify"
Untouched ==
    /\ file = fileAtStart
    /\ calls.save = 0

C2_StateWritten ==
    (RunEnded /\ outcome \in {"Baseline", "Changed", "Unchanged"}) =>
        /\ file.kind = "object"
        /\ calls.save = 1
        /\ file.last_checked = now
        /\ outcome \in {"Baseline", "Changed"} =>
               file.last_hash = sha256(signal_text)
        /\ outcome = "Unchanged" =>
               /\ file.last_hash = fileAtStart.last_hash
               /\ file.last_match = summary

\* C3: once a non-null last_hash has been persisted, the record that the next
\* load_state() returns has a non-null last_hash, whatever happened to the
\* runs in between (network failure, fatal error, interruption).
C3_HashNeverCleared ==
    (hash_set /\ pc = "exited") =>
        /\ ~load_state_raises(file)
        /\ load_state(file).is_dict
        /\ load_state(file).last_hash # None

\* C4: when all three fetch attempts of a run fail, the process exits with
\* status 0, the state file is as it was before the run, and no notification
\* is attempted.
C4_FetchFailure ==
    (now >= 1 /\ calls.failed = 3) =>
        /\ pc = "exited"
        /\ exit_code = 0
        /\ Untouched
        /\ calls.notify = 0
        /\ email_sent = "-" /\ whatsapp_sent = "-"

C4_Witness ==
    /\ RunEnded
    /\ calls.failed = 3
    /\ slept = <<1, 2>>
    /\ fileAtStart.kind = "object"
    /\ fileAtStart.last_hash # None

\* C5: in a run that calls send_notifications, whatever the channel
\* settings, the WhatsApp channel is attempted whatever the email channel
\* did, the run does not end with the fatal status 1, and a Changed run saves
\* the new state.
C5_DeliveryFailureNotFatal ==
    (RunEnded /\ calls.notify = 1) =>
        /\ email_sent # "-"
        /\ whatsapp_sent # "-"
        /\ exit_code # 1
        /\ outcome = "Changed" =>
               /\ file.kind = "object"
               /\ file.last_hash = sha256(signal_text)

\* C6: a run over a state file that is not valid JSON, or is valid JSON but
\* no object, is not ended by the stored data with the fatal status 1, and
\* having fetched and extracted it proceeds as a Baseline.
C6_CorruptStateIsBaseline ==
    (RunEnded /\ calls.load = 1
      /\ fileAtStart.kind \in {"invalid_json", "non_object"}) =>
        /\ error # "TypeError"
        /\ Extracted => (outcome = "Baseline" /\ exit_code = 0)

\* C7: with no target URL, or with neither a selector nor a non-empty
\* keyword, the process exits with status 2 and has loaded, fetched, saved
\* and notified nothing, the forced-test flag set or not.
C7_ConfigError ==
    (now >= 1 /\ NoUrlOrNothingToWatch) =>
        /\ pc = "exited"
        /\ exit_code = 2
        /\ calls = NoCalls
        /\ Untouched
        /\ email_sent = "-" /\ whatsapp_sent = "-"

C7_Witness ==
    /\ RunEnded
    /\ exit_code = 2
    /\ env.WATCH_URL # ""
    /\ env.WATCH_SELECTOR = ""
    /\ env.WATCH_KEYWORDS = <<" ", "">>
    /\ ForcedFlag
    /\ fileAtStart.kind = "object"

\* C8: a forced-test run with a valid configuration loads, fetches, extracts
\* and saves nothing, leaves the file as it was, calls the notifier exactly
\* once and exits with status 0.
C8_ForcedTest ==
    (RunEnded /\ ForcedFlag /\ ~NoUrlOrNothingToWatch) =>
        /\ calls.load = 0 /\ calls.get = 0 /\ calls.extract = 0
        /\ Untouched
        /\ calls.notify = 1
        /\ exit_code = 0

\* C9: a non-forced run whose signal is the one that the most recent earlier
\* run that fetched and extracted observed sends no notification.
C9_NoRenotification ==
    repeat => (email_sent # "sent" /\ whatsapp_sent # "sent")

\* C10: fetch(url, retries) makes at most `retries` attempts; it returns the
\* body of its first successful attempt; it has slept 2^k after each failed
\* attempt k but the last; and when every attempt failed it raises.
C10_FetchContract ==
    LET returned == pc = "extract_signal"
        raised == pc = "exited" /\ error \in FetchFailures
        waits == IF raised THEN calls.failed - 1 ELSE calls.failed
    IN  /\ calls.get <= retries
        /\ pc # "fetch" =>
               \/ returned /\ calls.get = calls.failed + 1
               \/ raised /\ calls.failed = retries
        /\ slept = [k \in 1..waits |-> 2 ^ (k - 1)]
====
